---- MODULE Spec2Model ----
(***************************************************************************)
(* A model of detect.py: the YOLO post-processing core                     *)
(* (yolo_boxes_to_corners, yolo_filter_boxes, yolo_non_max_suppression,    *)
(* yolo_eval) and the capture loop open_webcam.                            *)
(*                                                                         *)
(* Numbers.  Tensor entries are real numbers in the program; here they are *)
(* integers and all arithmetic is exact.  A class score                    *)
(* (box_confidence * box_class_probs) and a threshold are counted in units *)
(* of 1/Unit, so that thresholds strictly between 0 and 1 exist.  Box      *)
(* sizes are drawn even, so that the halving of line 83 is exact.          *)
(* A tensor over the grid (19 x 19 x 5 in the program) is a sequence over  *)
(* its positions in row-major order; class indices start at 0.             *)
(***************************************************************************)
EXTENDS Integers, Sequences, FiniteSets, TLC

VARIABLES
    pc,                 \* control position of the function being run
    box_xy,             \* yolo_outputs[0]: <<x, y>> per position
    box_wh,             \* yolo_outputs[1]: <<w, h>> per position
    box_confidence,     \* yolo_outputs[2]: confidence per position
    box_class_probs,    \* yolo_outputs[3]: per position, a sequence over classes
    image_shape,        \* <<height, width>>
    max_boxes,
    score_threshold,
    iou_threshold,
    threshold,          \* parameter of yolo_filter_boxes
    boxes,              \* local / parameter "boxes"
    scores,             \* local / parameter "scores"
    classes,            \* local / parameter "classes"
    result,             \* the value returned
    memo,               \* observer: an earlier invocation, (arguments, result)
    cap_opened,         \* cap.isOpened()
    ret,                \* ret of the last cap.read()
    key,                \* value of the last cv2.waitKey(1)
    trace               \* observer: the calls open_webcam has made, in order

vars == <<pc, box_xy, box_wh, box_confidence, box_class_probs, image_shape,
          max_boxes, score_threshold, iou_threshold, threshold, boxes, scores,
          classes, result, memo, cap_opened, ret, key, trace>>

----------------------------------------------------------------------------
(* Bounds *)

\* number of grid positions of a frame
NumPos == 2
\* scores and thresholds are counted in units of 1/Unit
Unit == 4
\* longest input handed to yolo_non_max_suppression on its own
MaxLen == 3
\* frames the capture loop may read
MaxFrames == 5

Pos == 1..NumPos

Min2(a, b) == IF a <= b THEN a ELSE b
Max2(a, b) == IF a >= b THEN a ELSE b

----------------------------------------------------------------------------
(* Tensor primitives *)

\* tensor / 2.
Half(v) == v \div 2

\* tf.math.reduce_max over the last axis
reduce_max(row) == CHOOSE m \in {row[c] : c \in DOMAIN row} :
                       \A c \in DOMAIN row : row[c] <= m

\* tf.math.argmax over the last axis: the smallest index of the largest value
argmax(row) == (CHOOSE c \in DOMAIN row :
                   /\ row[c] = reduce_max(row)
                   /\ \A d \in DOMAIN row : d < c => row[d] < row[c]) - 1

\* tf.boolean_mask: the entries whose mask is TRUE, in order
RECURSIVE boolean_mask(_, _)
boolean_mask(tensor, mask) ==
    IF tensor = << >> THEN << >>
    ELSE LET n == Len(tensor)
             front == boolean_mask(SubSeq(tensor, 1, n - 1), SubSeq(mask, 1, n - 1))
         IN IF mask[n] THEN Append(front, tensor[n]) ELSE front

\* tf.gather with 0-based indices
gather(params, indices) == [i \in 1..Len(indices) |-> params[indices[i] + 1]]

----------------------------------------------------------------------------
(* yolo_boxes_to_corners *)

\* variant: the corners are returned x first
yolo_boxes_to_corners_x_first(xy, wh) ==
    [p \in DOMAIN xy |->
        LET box_mins  == <<xy[p][1] - Half(wh[p][1]), xy[p][2] - Half(wh[p][2])>>
            box_maxes == <<xy[p][1] + Half(wh[p][1]), xy[p][2] + Half(wh[p][2])>>
        IN <<box_mins[1], box_mins[2], box_maxes[1], box_maxes[2]>>]

yolo_boxes_to_corners(xy, wh) ==
    [p \in DOMAIN xy |->
        LET box_mins  == <<xy[p][1] - Half(wh[p][1]), xy[p][2] - Half(wh[p][2])>>
            box_maxes == <<xy[p][1] + Half(wh[p][1]), xy[p][2] + Half(wh[p][2])>>
        IN <<box_mins[2],     \* y_min
             box_mins[1],     \* x_min
             box_maxes[2],    \* y_max
             box_maxes[1]>>]  \* x_max

----------------------------------------------------------------------------
(* yolo_filter_boxes *)

\* box_scores = box_confidence * box_class_probs
box_scores_of(confidence, class_probs) ==
    [p \in DOMAIN class_probs |->
        [c \in DOMAIN class_probs[p] |-> confidence[p] * class_probs[p][c]]]

\* variant: a score equal to the threshold is removed
filtering_mask_strict(box_class_scores, thr) ==
    [p \in DOMAIN box_class_scores |-> box_class_scores[p] > thr]

\* filtering_mask = box_class_scores >= threshold
filtering_mask_of(box_class_scores, thr) ==
    [p \in DOMAIN box_class_scores |-> box_class_scores[p] >= thr]

yolo_filter_boxes(bxs, confidence, class_probs, thr) ==
    LET box_scores       == box_scores_of(confidence, class_probs)
        box_classes      == [p \in DOMAIN box_scores |-> argmax(box_scores[p])]
        box_class_scores == [p \in DOMAIN box_scores |-> reduce_max(box_scores[p])]
        filtering_mask   == filtering_mask_of(box_class_scores, thr)
    IN [scores  |-> boolean_mask(box_class_scores, filtering_mask),
        boxes   |-> boolean_mask(bxs, filtering_mask),
        classes |-> boolean_mask(box_classes, filtering_mask)]

----------------------------------------------------------------------------
(* scale_boxes (yad2k.utils.utils): each corner is multiplied by the image *)
(* dimension of its axis, <<height, width, height, width>>.                *)

scale_boxes(bxs, shape) ==
    [i \in DOMAIN bxs |-> <<bxs[i][1] * shape[1], bxs[i][2] * shape[2],
                            bxs[i][3] * shape[1], bxs[i][4] * shape[2]>>]

----------------------------------------------------------------------------
(* tf.image.non_max_suppression(boxes, scores, max_output_size,            *)
(* iou_threshold): greedy selection in descending score order.             *)

\* area of the overlap of two corner boxes <<y1, x1, y2, x2>>, and of their
\* union, as the kernel computes them: corners are normalised first and a box
\* of no area overlaps nothing
tf_overlap(a, b) ==
    LET ymin_a == Min2(a[1], a[3])  ymax_a == Max2(a[1], a[3])
        xmin_a == Min2(a[2], a[4])  xmax_a == Max2(a[2], a[4])
        ymin_b == Min2(b[1], b[3])  ymax_b == Max2(b[1], b[3])
        xmin_b == Min2(b[2], b[4])  xmax_b == Max2(b[2], b[4])
        area_a == (ymax_a - ymin_a) * (xmax_a - xmin_a)
        area_b == (ymax_b - ymin_b) * (xmax_b - xmin_b)
        ih == Max2(Min2(ymax_a, ymax_b) - Max2(ymin_a, ymin_b), 0)
        iw == Max2(Min2(xmax_a, xmax_b) - Max2(xmin_a, xmin_b), 0)
    IN IF area_a <= 0 \/ area_b <= 0
       THEN [inter |-> 0, union |-> 1]
       ELSE [inter |-> ih * iw, union |-> area_a + area_b - ih * iw]

\* IoU(a, b) > thr, with thr counted in units of 1/Unit
iou_exceeds(a, b, thr) ==
    LET o == tf_overlap(a, b) IN o.inter * Unit > thr * o.union

\* variant: candidates are taken in index order, whatever their scores
next_candidate_by_index(scs, remaining) ==
    CHOOSE i \in remaining : \A j \in remaining : i <= j

\* the candidate the kernel's priority queue yields next: the highest score,
\* the lower index among equal scores (indices are 0-based)
next_candidate(scs, remaining) ==
    CHOOSE i \in remaining :
        \A j \in remaining :
            \/ scs[i + 1] > scs[j + 1]
            \/ scs[i + 1] = scs[j + 1] /\ i <= j

\* variant: only the box selected last is compared
should_select_last_only(bxs, c, selected, thr) ==
    selected = << >> \/
        ~iou_exceeds(bxs[c + 1], bxs[selected[Len(selected)] + 1], thr)

\* a candidate is selected unless it overlaps an already selected box by more
\* than the threshold
should_select(bxs, c, selected, thr) ==
    \A j \in 1..Len(selected) : ~iou_exceeds(bxs[c + 1], bxs[selected[j] + 1], thr)

RECURSIVE nms_loop(_, _, _, _, _, _)
nms_loop(bxs, scs, remaining, selected, output_size, thr) ==
    IF remaining = {} \/ Len(selected) >= output_size THEN selected
    ELSE LET c == next_candidate(scs, remaining)
         IN nms_loop(bxs, scs, remaining \ {c},
                     IF should_select(bxs, c, selected, thr)
                     THEN Append(selected, c) ELSE selected,
                     output_size, thr)

\* variant: max_output_size is not applied
non_max_suppression_unbounded(bxs, scs, max_output_size, thr) ==
    nms_loop(bxs, scs, {i - 1 : i \in DOMAIN scs}, << >>, Len(scs), thr)

non_max_suppression(bxs, scs, max_output_size, thr) ==
    nms_loop(bxs, scs, {i - 1 : i \in DOMAIN scs}, << >>,
             Min2(max_output_size, Len(scs)), thr)

\* variant: the classes are cut to the number of selected boxes instead of
\* being gathered by nms_indices
yolo_non_max_suppression_classes_not_gathered(scs, bxs, cls, maxb, thr) ==
    LET nms_indices == non_max_suppression(bxs, scs, maxb, thr)
    IN [scores  |-> gather(scs, nms_indices),
        boxes   |-> gather(bxs, nms_indices),
        classes |-> SubSeq(cls, 1, Len(nms_indices))]

yolo_non_max_suppression(scs, bxs, cls, maxb, thr) ==
    LET nms_indices == non_max_suppression(bxs, scs, maxb, thr)
    IN [scores  |-> gather(scs, nms_indices),
        boxes   |-> gather(bxs, nms_indices),
        classes |-> gather(cls, nms_indices)]

----------------------------------------------------------------------------
(* yolo_eval, one statement per step *)

\* the threshold yolo_eval hands to yolo_filter_boxes (its fourth argument)
filter_threshold == iou_threshold

NoResult == [scores |-> << >>, boxes |-> << >>, classes |-> << >>]

\* variant: the boxes of every position are rescaled before the filter runs
Decode_then_rescale ==
    /\ pc = "decode"
    /\ boxes' = scale_boxes(yolo_boxes_to_corners(box_xy, box_wh), image_shape)
    /\ pc' = "filter"
    /\ UNCHANGED <<box_xy, box_wh, box_confidence, box_class_probs, image_shape,
                   max_boxes, score_threshold, iou_threshold, threshold, scores,
                   classes, result, memo, cap_opened, ret, key, trace>>

\* boxes = yolo_boxes_to_corners(box_xy, box_wh)
Decode ==
    /\ pc = "decode"
    /\ boxes' = yolo_boxes_to_corners(box_xy, box_wh)
    /\ pc' = "filter"
    /\ UNCHANGED <<box_xy, box_wh, box_confidence, box_class_probs, image_shape,
                   max_boxes, score_threshold, iou_threshold, threshold, scores,
                   classes, result, memo, cap_opened, ret, key, trace>>

\* scores, boxes, classes = yolo_filter_boxes(boxes, box_confidence, box_class_probs, ...)
Filter ==
    /\ pc = "filter"
    /\ LET r == yolo_filter_boxes(boxes, box_confidence, box_class_probs,
                                  filter_threshold)
       IN /\ scores' = r.scores
          /\ boxes' = r.boxes
          /\ classes' = r.classes
    /\ pc' = "rescale"
    /\ UNCHANGED <<box_xy, box_wh, box_confidence, box_class_probs, image_shape,
                   max_boxes, score_threshold, iou_threshold, threshold, result,
                   memo, cap_opened, ret, key, trace>>

\* boxes = scale_boxes(boxes, image_shape)
Rescale ==
    /\ pc = "rescale"
    /\ boxes' = scale_boxes(boxes, image_shape)
    /\ pc' = "suppress"
    /\ UNCHANGED <<box_xy, box_wh, box_confidence, box_class_probs, image_shape,
                   max_boxes, score_threshold, iou_threshold, threshold, scores,
                   classes, result, memo, cap_opened, ret, key, trace>>

\* scores, boxes, classes = yolo_non_max_suppression(scores, boxes, classes, max_boxes, iou_threshold)
Suppress ==
    /\ pc = "suppress"
    /\ LET r == yolo_non_max_suppression(scores, boxes, classes, max_boxes,
                                         iou_threshold)
       IN /\ scores' = r.scores
          /\ boxes' = r.boxes
          /\ classes' = r.classes
    /\ pc' = "return"
    /\ UNCHANGED <<box_xy, box_wh, box_confidence, box_class_probs, image_shape,
                   max_boxes, score_threshold, iou_threshold, threshold, result,
                   memo, cap_opened, ret, key, trace>>

\* variant: the returned lists are those of the last call, extended
Return_appending ==
    /\ pc = "return"
    /\ result' = [scores |-> result.scores \o scores, boxes |-> result.boxes \o boxes,
                  classes |-> result.classes \o classes]
    /\ pc' = "done"
    /\ UNCHANGED <<box_xy, box_wh, box_confidence, box_class_probs, image_shape,
                   max_boxes, score_threshold, iou_threshold, threshold, boxes,
                   scores, classes, memo, cap_opened, ret, key, trace>>

\* return scores, boxes, classes
Return ==
    /\ pc = "return"
    /\ result' = [scores |-> scores, boxes |-> boxes, classes |-> classes]
    /\ pc' = "done"
    /\ UNCHANGED <<box_xy, box_wh, box_confidence, box_class_probs, image_shape,
                   max_boxes, score_threshold, iou_threshold, threshold, boxes,
                   scores, classes, memo, cap_opened, ret, key, trace>>

----------------------------------------------------------------------------
(* Spec: one invocation of yolo_eval on every frame and argument of the    *)
(* sets below.                                                             *)

XYs == {<<2, 1>>, <<3, 1>>, <<6, 1>>}       \* <<x, y>>
WHs == {<<2, 4>>}                           \* <<w, h>>
Confs == {1, 2}
Probs == {<<2, 1>>, <<1, 2>>}
Shapes == {<<2, 3>>}                        \* <<height, width>>
Thresholds == {1, 2, 3}                     \* in units of 1/Unit

WebcamIdle ==
    /\ cap_opened = FALSE
    /\ ret = FALSE
    /\ key = 0
    /\ trace = << >>

Init ==
    /\ pc = "decode"
    /\ box_xy \in [Pos -> XYs]
    /\ box_wh \in [Pos -> WHs]
    /\ box_confidence \in [Pos -> Confs]
    /\ box_class_probs \in [Pos -> Probs]
    /\ image_shape \in Shapes
    /\ max_boxes \in 0..NumPos
    /\ score_threshold \in Thresholds
    /\ iou_threshold \in Thresholds
    /\ threshold = 0
    /\ boxes = << >>
    /\ scores = << >>
    /\ classes = << >>
    /\ result = NoResult
    /\ memo = {}
    /\ WebcamIdle

Next == Decode \/ Filter \/ Rescale \/ Suppress \/ Return

Spec == Init /\ [][Next]_vars

----------------------------------------------------------------------------
(* What the claims speak of, stated from the arguments of the invocation   *)

\* the class scores of position p and the highest of them
ClassScore(p, c) == box_confidence[p] * box_class_probs[p][c]
TopScore(p) == CHOOSE m \in {ClassScore(p, c) : c \in DOMAIN box_class_probs[p]} :
                   \A c \in DOMAIN box_class_probs[p] : ClassScore(p, c) <= m

\* b is the corner form <<y_min, x_min, y_max, x_max>> of position p
\* (stated doubled: 2 * y_min = 2y - h)
IsCornerOf(b, p) ==
    /\ 2 * b[1] = 2 * box_xy[p][2] - box_wh[p][2]
    /\ 2 * b[2] = 2 * box_xy[p][1] - box_wh[p][1]
    /\ 2 * b[3] = 2 * box_xy[p][2] + box_wh[p][2]
    /\ 2 * b[4] = 2 * box_xy[p][1] + box_wh[p][1]

\* b is what scale_boxes makes of the corner form of position p
IsScaledCornerOf(b, p) ==
    LET c == <<(2 * box_xy[p][2] - box_wh[p][2]) \div 2,
               (2 * box_xy[p][1] - box_wh[p][1]) \div 2,
               (2 * box_xy[p][2] + box_wh[p][2]) \div 2,
               (2 * box_xy[p][1] + box_wh[p][1]) \div 2>>
    IN /\ IsCornerOf(c, p)
       /\ b = scale_boxes(<<c>>, image_shape)[1]

\* the positions whose highest class score reaches thr, in row-major order
Survivors(thr) == SelectSeq([p \in Pos |-> p], LAMBDA p : TopScore(p) >= thr)

Aligned == Len(scores) = Len(boxes) /\ Len(scores) = Len(classes)

\* C1 (as claimed): the boxes yolo_eval hands on to rescaling and non-max
\* suppression are exactly those of the positions whose highest class score
\* is >= score_threshold, whatever iou_threshold is.
C1_FilterUsesScoreThreshold ==
    pc = "rescale" =>
        LET keep == Survivors(score_threshold)
        IN /\ Aligned
           /\ Len(scores) = Len(keep)
           /\ \A i \in 1..Len(keep) :
                  /\ scores[i] = TopScore(keep[i])
                  /\ IsCornerOf(boxes[i], keep[i])

\* C4: every returned triple comes from one input position: its score is
\* that position's highest class score and the score of the returned class,
\* its box is that position's corner form scaled to image_shape; and no
\* position yields two triples.
C4_TriplesAligned ==
    pc = "done" =>
        /\ Len(result.scores) = Len(result.boxes)
        /\ Len(result.scores) = Len(result.classes)
        /\ \E f \in [1..Len(result.scores) -> Pos] :
              /\ \A i, j \in DOMAIN f : i # j => f[i] # f[j]
              /\ \A i \in DOMAIN f :
                    /\ result.scores[i] = TopScore(f[i])
                    /\ result.classes[i] + 1 \in DOMAIN box_class_probs[f[i]]
                    /\ result.scores[i] = ClassScore(f[i], result.classes[i] + 1)
                    /\ IsScaledCornerOf(result.boxes[i], f[i])

\* a call that returns two triples of different classes from a frame whose
\* positions differ in box and in score
C4_Witness ==
    /\ pc = "done"
    /\ Len(result.scores) = 2
    /\ result.classes[1] # result.classes[2]
    /\ result.scores[1] # result.scores[2]
    /\ result.boxes[1] # result.boxes[2]

\* C5: the stages run in the order decode, filter, rescale, suppress.  The
\* filter is handed the corner form of every position, unscaled; rescaling
\* is handed exactly the filter's survivors; suppression is handed exactly
\* the survivors, in image_shape coordinates; every returned box is one of
\* those.
C5_StageOrder ==
    LET keep == Survivors(filter_threshold)
        Kept(b) == \E i \in 1..Len(keep) : IsScaledCornerOf(b, keep[i])
    IN /\ pc = "filter" =>
            /\ Len(boxes) = NumPos
            /\ \A p \in Pos : IsCornerOf(boxes[p], p)
       /\ pc = "rescale" =>
            /\ Aligned
            /\ Len(boxes) = Len(keep)
            /\ \A i \in 1..Len(keep) : IsCornerOf(boxes[i], keep[i])
       /\ pc = "suppress" =>
            /\ Aligned
            /\ Len(boxes) = Len(keep)
            /\ \A i \in 1..Len(keep) : IsScaledCornerOf(boxes[i], keep[i])
       /\ pc \in {"return", "done"} =>
            /\ Aligned
            /\ Len(boxes) <= Len(keep)
            /\ \A i \in 1..Len(boxes) : Kept(boxes[i])
       /\ pc = "done" =>
            result = [scores |-> scores, boxes |-> boxes, classes |-> classes]

\* a call in which the filter removed a position and a box of another
\* position was returned, scaled by a height and a width that differ
C5_Witness ==
    /\ pc = "done"
    /\ Len(Survivors(filter_threshold)) < NumPos
    /\ Len(result.boxes) >= 1
    /\ image_shape[1] # image_shape[2]

----------------------------------------------------------------------------
(* SpecNMS: yolo_non_max_suppression applied to every input of up to       *)
(* MaxLen triples of the sets below.                                       *)

\* corner boxes <<y1, x1, y2, x2>>: the second lies inside the first (IoU
\* 1/2), the third is apart from both, the fourth has no area
NmsBoxes == {<<0, 0, 2, 4>>, <<0, 0, 2, 2>>, <<0, 5, 2, 7>>, <<0, 0, 0, 2>>}
NmsScores == {1, 2}
NmsClasses == {0, 1}
NmsThresholds == {1, 2}                     \* in units of 1/Unit

InitNMS ==
    /\ pc = "nms"
    /\ \E n \in 0..MaxLen :
          /\ scores \in [1..n -> NmsScores]
          /\ boxes \in [1..n -> NmsBoxes]
          /\ classes \in [1..n -> NmsClasses]
    /\ max_boxes \in 0..MaxLen
    /\ iou_threshold \in NmsThresholds
    /\ box_xy = << >>
    /\ box_wh = << >>
    /\ box_confidence = << >>
    /\ box_class_probs = << >>
    /\ image_shape = <<1, 1>>
    /\ score_threshold = 0
    /\ threshold = 0
    /\ result = NoResult
    /\ memo = {}
    /\ WebcamIdle

\* return yolo_non_max_suppression(scores, boxes, classes, max_boxes, iou_threshold)
CallNMS ==
    /\ pc = "nms"
    /\ result' = yolo_non_max_suppression(scores, boxes, classes, max_boxes,
                                          iou_threshold)
    /\ pc' = "nms_done"
    /\ UNCHANGED <<box_xy, box_wh, box_confidence, box_class_probs, image_shape,
                   max_boxes, score_threshold, iou_threshold, threshold, boxes,
                   scores, classes, memo, cap_opened, ret, key, trace>>

SpecNMS == InitNMS /\ [][CallNMS]_vars

\* the overlap of two corner boxes and the area they cover together
Area(b) == (b[3] - b[1]) * (b[4] - b[2])
Intersection(a, b) ==
    Max2(0, Min2(a[3], b[3]) - Max2(a[1], b[1]))
        * Max2(0, Min2(a[4], b[4]) - Max2(a[2], b[2]))
Union(a, b) == Area(a) + Area(b) - Intersection(a, b)
\* intersection-over-union(a, b) > thr, for thr in units of 1/Unit
IoUAbove(a, b, thr) == Intersection(a, b) * Unit > thr * Union(a, b)

\* C3: the three sequences yolo_non_max_suppression returns have one length
\* n, and 0 <= n <= max_boxes.
C3_AtMostMaxBoxes ==
    pc = "nms_done" =>
        /\ Len(result.scores) = Len(result.boxes)
        /\ Len(result.scores) = Len(result.classes)
        /\ Len(result.scores) <= max_boxes

\* an input with more than max_boxes boxes, no two of which overlap, of
\* which max_boxes >= 1 are returned
C3_Witness ==
    /\ pc = "nms_done"
    /\ max_boxes >= 1
    /\ Len(boxes) > max_boxes
    /\ \A i, j \in 1..Len(boxes) : i # j => Intersection(boxes[i], boxes[j]) = 0
    /\ \A i \in 1..Len(boxes) : Area(boxes[i]) > 0
    /\ Len(result.boxes) = max_boxes

\* C7: no two boxes returned by yolo_non_max_suppression overlap by more
\* than iou_threshold, whatever their classes.
C7_NoOverlapAboveThreshold ==
    pc = "nms_done" =>
        \A i, j \in 1..Len(result.boxes) :
            i # j => ~IoUAbove(result.boxes[i], result.boxes[j], iou_threshold)

\* two overlapping boxes of different classes went in, max_boxes allowed
\* both, and the lower-scoring one was suppressed
C7_Witness ==
    /\ pc = "nms_done"
    /\ Len(boxes) = 2
    /\ max_boxes >= 2
    /\ classes[1] # classes[2]
    /\ scores[1] < scores[2]
    /\ IoUAbove(boxes[1], boxes[2], iou_threshold)
    /\ result.boxes = <<boxes[2]>>
    /\ result.classes = <<classes[2]>>

\* C8: the returned triples are input triples, each taken once, in
\* non-increasing score order; the highest-scoring input comes first; a
\* box that is not returned overlaps a returned box of greater or equal
\* score by more than iou_threshold, or max_boxes boxes were selected
\* before it was reached.
C8_GreedyByScore ==
    pc = "nms_done" =>
        LET n == Len(result.scores)
        IN /\ \A i \in 1..n : \A j \in 1..n : i < j => result.scores[i] >= result.scores[j]
           /\ (Len(scores) > 0 /\ max_boxes >= 1) =>
                  /\ n >= 1
                  /\ \A k \in 1..Len(scores) : result.scores[1] >= scores[k]
           /\ \E f \in [1..n -> 1..Len(scores)] :
                 /\ \A i, j \in 1..n : i # j => f[i] # f[j]
                 /\ \A i \in 1..n :
                       /\ result.scores[i] = scores[f[i]]
                       /\ result.boxes[i] = boxes[f[i]]
                       /\ result.classes[i] = classes[f[i]]
                 /\ \A k \in 1..Len(scores) :
                       (\A i \in 1..n : f[i] # k) =>
                           \/ \E i \in 1..n :
                                 /\ scores[f[i]] >= scores[k]
                                 /\ IoUAbove(boxes[f[i]], boxes[k], iou_threshold)
                           \/ /\ n = max_boxes
                              /\ \A i \in 1..n : scores[f[i]] >= scores[k]

\* three boxes went in: one was returned first, one was suppressed by it,
\* and one was left out because max_boxes were already selected
C8_Witness ==
    /\ pc = "nms_done"
    /\ Len(boxes) = 3
    /\ max_boxes = 1
    /\ Len(result.boxes) = 1
    /\ scores[2] > scores[1]
    /\ scores[2] > scores[3]
    /\ result.boxes[1] = boxes[2]
    /\ IoUAbove(boxes[2], boxes[1], iou_threshold)
    /\ Intersection(boxes[2], boxes[3]) = 0

----------------------------------------------------------------------------
(* SpecFilter: yolo_filter_boxes applied to every input of the sets below. *)

FilterBoxes == {<<0, 0, 2, 2>>, <<1, 1, 3, 5>>}
FilterConfs == {0, 1, 2}
FilterProbs == {<<2, 1, 0>>, <<1, 2, 2>>, <<1, 1, 1>>, <<0, 1, 2>>}

InitFilter ==
    /\ pc = "filter_boxes"
    /\ boxes \in [Pos -> FilterBoxes]
    /\ box_confidence \in [Pos -> FilterConfs]
    /\ box_class_probs \in [Pos -> FilterProbs]
    /\ threshold \in Thresholds
    /\ box_xy = << >>
    /\ box_wh = << >>
    /\ image_shape = <<1, 1>>
    /\ max_boxes = 0
    /\ score_threshold = 0
    /\ iou_threshold = 0
    /\ scores = << >>
    /\ classes = << >>
    /\ result = NoResult
    /\ memo = {}
    /\ WebcamIdle

\* return yolo_filter_boxes(boxes, box_confidence, box_class_probs, threshold)
CallFilter ==
    /\ pc = "filter_boxes"
    /\ result' = yolo_filter_boxes(boxes, box_confidence, box_class_probs, threshold)
    /\ pc' = "filter_boxes_done"
    /\ UNCHANGED <<box_xy, box_wh, box_confidence, box_class_probs, image_shape,
                   max_boxes, score_threshold, iou_threshold, threshold, boxes,
                   scores, classes, memo, cap_opened, ret, key, trace>>

SpecFilter == InitFilter /\ [][CallFilter]_vars

\* c (0-based) is the first class that attains the highest score of position p
IsFirstTopClass(p, c) ==
    /\ c + 1 \in DOMAIN box_class_probs[p]
    /\ ClassScore(p, c + 1) = TopScore(p)
    /\ \A d \in DOMAIN box_class_probs[p] : d < c + 1 => ClassScore(p, d) < TopScore(p)

\* C2: yolo_filter_boxes returns, in input order, exactly the positions
\* whose highest class score is >= threshold, each with that score, its box
\* and the first class that attains the score.
C2_FilterKeepsAtOrAboveThreshold ==
    pc = "filter_boxes_done" =>
        LET keep == Survivors(threshold)
        IN /\ Len(result.scores) = Len(keep)
           /\ Len(result.boxes) = Len(keep)
           /\ Len(result.classes) = Len(keep)
           /\ \A i \in 1..Len(keep) :
                 /\ result.scores[i] = TopScore(keep[i])
                 /\ result.boxes[i] = boxes[keep[i]]
                 /\ IsFirstTopClass(keep[i], result.classes[i])

\* the first position scores below the threshold and is removed; the last
\* scores exactly the threshold, two of its classes tie, and it is returned
\* with the first of them
C2_Witness ==
    /\ pc = "filter_boxes_done"
    /\ TopScore(1) < threshold
    /\ TopScore(NumPos) = threshold
    /\ ClassScore(NumPos, 1) < ClassScore(NumPos, 2)
    /\ ClassScore(NumPos, 2) = ClassScore(NumPos, 3)
    /\ Len(result.scores) >= 1
    /\ result.scores[Len(result.scores)] = threshold
    /\ result.classes[Len(result.classes)] = 1
    /\ result.boxes[1] # boxes[1]

----------------------------------------------------------------------------
(* SpecCorners: yolo_boxes_to_corners applied to every input of the sets   *)
(* below.                                                                  *)

CornerXYs == {<<0, 0>>, <<2, 1>>, <<1, 3>>}
CornerWHs == {<<0, 0>>, <<2, 4>>, <<4, 2>>, <<-2, 2>>}

InitCorners ==
    /\ pc = "corners"
    /\ box_xy \in [Pos -> CornerXYs]
    /\ box_wh \in [Pos -> CornerWHs]
    /\ box_confidence = << >>
    /\ box_class_probs = << >>
    /\ image_shape = <<1, 1>>
    /\ max_boxes = 0
    /\ score_threshold = 0
    /\ iou_threshold = 0
    /\ threshold = 0
    /\ boxes = << >>
    /\ scores = << >>
    /\ classes = << >>
    /\ result = NoResult
    /\ memo = {}
    /\ WebcamIdle

\* return yolo_boxes_to_corners(box_xy, box_wh)
CallCorners ==
    /\ pc = "corners"
    /\ boxes' = yolo_boxes_to_corners(box_xy, box_wh)
    /\ pc' = "corners_done"
    /\ UNCHANGED <<box_xy, box_wh, box_confidence, box_class_probs, image_shape,
                   max_boxes, score_threshold, iou_threshold, threshold, scores,
                   classes, result, memo, cap_opened, ret, key, trace>>

SpecCorners == InitCorners /\ [][CallCorners]_vars

\* C9: yolo_boxes_to_corners maps (x, y, w, h) to <<y - h/2, x - w/2,
\* y + h/2, x + w/2>>; for w >= 0 and h >= 0 the minima do not exceed the
\* maxima, the differences are h and w, and the midpoints are y and x.
C9_CornersOfCentreSize ==
    pc = "corners_done" =>
        /\ Len(boxes) = NumPos
        /\ \A p \in Pos :
              LET b == boxes[p]
                  x == box_xy[p][1]  y == box_xy[p][2]
                  w == box_wh[p][1]  h == box_wh[p][2]
              IN /\ Len(b) = 4
                 /\ 2 * b[1] = 2 * y - h
                 /\ 2 * b[2] = 2 * x - w
                 /\ 2 * b[3] = 2 * y + h
                 /\ 2 * b[4] = 2 * x + w
                 /\ (w >= 0 /\ h >= 0) =>
                       /\ b[1] <= b[3]
                       /\ b[2] <= b[4]
                       /\ b[3] - b[1] = h
                       /\ b[4] - b[2] = w
                       /\ b[2] + b[4] = 2 * x
                       /\ b[1] + b[3] = 2 * y

\* a box whose centre has x # y and whose size has w # h, both positive,
\* has been converted
C9_Witness ==
    /\ pc = "corners_done"
    /\ box_xy[1] = <<2, 1>>
    /\ box_wh[1] = <<2, 4>>
    /\ boxes[1] = <<-1, 1, 3, 3>>

----------------------------------------------------------------------------
(* SpecSeq: yolo_eval invoked again and again, on frames and arguments of  *)
(* the sets below.  The locals and the returned value are variables that   *)
(* outlive an invocation: Call binds the arguments only, so a stage that   *)
(* read a value before binding it would read what an earlier frame left.   *)
(* memo is an observer: it keeps one finished invocation, and whether an   *)
(* invocation with other arguments has been made since.                    *)

\* frames that differ in their first position
SeqFrames ==
    {[box_xy |-> [p \in Pos |-> IF p = 1 THEN xy ELSE <<3, 1>>],
      box_wh |-> [p \in Pos |-> <<2, 4>>],
      box_confidence |-> [p \in Pos |-> IF p = 1 THEN cf ELSE 2],
      box_class_probs |-> [p \in Pos |-> IF p = 1 THEN <<1, 2>> ELSE <<2, 1>>]] :
        xy \in {<<2, 1>>, <<6, 1>>}, cf \in {1, 2}}
SeqThresholds == {1, 3}

Arguments ==
    [box_xy |-> box_xy, box_wh |-> box_wh, box_confidence |-> box_confidence,
     box_class_probs |-> box_class_probs, image_shape |-> image_shape,
     max_boxes |-> max_boxes, score_threshold |-> score_threshold,
     iou_threshold |-> iou_threshold]

InitSeq ==
    /\ pc = "idle"
    /\ box_xy = << >>
    /\ box_wh = << >>
    /\ box_confidence = << >>
    /\ box_class_probs = << >>
    /\ image_shape = <<1, 1>>
    /\ max_boxes = 0
    /\ score_threshold = 0
    /\ iou_threshold = 0
    /\ threshold = 0
    /\ boxes = << >>
    /\ scores = << >>
    /\ classes = << >>
    /\ result = NoResult
    /\ memo = {}
    /\ WebcamIdle

\* yolo_eval(yolo_outputs, image_shape, max_boxes, score_threshold, iou_threshold)
Call ==
    /\ pc \in {"idle", "done"}
    /\ \E frame \in SeqFrames :
          /\ box_xy' = frame.box_xy
          /\ box_wh' = frame.box_wh
          /\ box_confidence' = frame.box_confidence
          /\ box_class_probs' = frame.box_class_probs
    /\ image_shape' \in Shapes
    /\ max_boxes' \in {1, NumPos}
    /\ score_threshold' \in SeqThresholds
    /\ iou_threshold' \in SeqThresholds
    /\ memo' = {[m EXCEPT !.between = m.between \/ m.arguments # Arguments'] : m \in memo}
    /\ pc' = "decode"
    /\ UNCHANGED <<threshold, boxes, scores, classes, result, cap_opened, ret,
                   key, trace>>

\* the observer records the invocation that has just returned
Observe ==
    /\ pc = "done"
    /\ memo' = {[arguments |-> Arguments, result |-> result, between |-> FALSE]}
    /\ memo' # memo
    /\ UNCHANGED <<pc, box_xy, box_wh, box_confidence, box_class_probs,
                   image_shape, max_boxes, score_threshold, iou_threshold,
                   threshold, boxes, scores, classes, result, cap_opened, ret,
                   key, trace>>

NextSeq == Call \/ Decode \/ Filter \/ Rescale \/ Suppress \/ Return \/ Observe

SpecSeq == InitSeq /\ [][NextSeq]_vars

\* C6: an invocation of yolo_eval returns what an earlier invocation with
\* equal arguments returned, whatever was processed before or in between.
C6_SameArgumentsSameResult ==
    pc = "done" =>
        \A m \in memo : m.arguments = Arguments => m.result = result

\* an invocation has returned boxes, an invocation with other arguments was
\* made after it, and an invocation with the first one's arguments has
\* returned again
C6_Witness ==
    /\ pc = "done"
    /\ \E m \in memo :
          /\ m.arguments = Arguments
          /\ m.between
          /\ Len(m.result.boxes) >= 1

----------------------------------------------------------------------------
(* SpecWebcam: open_webcam.  The camera, predict and the keyboard are the  *)
(* environment: the capture may be closed at any loop test, a read may     *)
(* fail, predict may raise, and any key of Keys may be pending.  trace     *)
(* lists the calls made so far.                                            *)

\* ord('q')
ord_q == 113
\* values of cv2.waitKey(1): no key, 'q', 'Q', and a 'q' with a bit above the low byte
Keys == {-1, 113, 81, 369}

\* the captured frames read so far
FramesRead == Len(SelectSeq(trace, LAMBDA e : e \in {"read_ok", "read_fail"}))

EvalIdle ==
    /\ box_xy = << >>
    /\ box_wh = << >>
    /\ box_confidence = << >>
    /\ box_class_probs = << >>
    /\ image_shape = <<1, 1>>
    /\ max_boxes = 0
    /\ score_threshold = 0
    /\ iou_threshold = 0
    /\ threshold = 0
    /\ boxes = << >>
    /\ scores = << >>
    /\ classes = << >>
    /\ result = NoResult
    /\ memo = {}

EvalUnchanged ==
    UNCHANGED <<box_xy, box_wh, box_confidence, box_class_probs, image_shape,
                max_boxes, score_threshold, iou_threshold, threshold, boxes,
                scores, classes, result, memo>>

\* cap = cv2.VideoCapture(0)
InitWebcam ==
    /\ pc = "while"
    /\ cap_opened \in BOOLEAN
    /\ ret = FALSE
    /\ key = -1
    /\ trace = << >>
    /\ EvalIdle

\* while cap.isOpened():
LoopTest ==
    /\ pc = "while"
    /\ cap_opened' \in (IF cap_opened THEN BOOLEAN ELSE {FALSE})
    /\ pc' = IF cap_opened' THEN "read" ELSE "release"
    /\ UNCHANGED <<ret, key, trace>>
    /\ EvalUnchanged

\* variant: the loop goes on to predict after a failed read
Read_without_break ==
    /\ pc = "read"
    /\ ret' \in (IF FramesRead < MaxFrames THEN BOOLEAN ELSE {FALSE})
    /\ trace' = Append(trace, IF ret' THEN "read_ok" ELSE "read_fail")
    /\ pc' = "predict"
    /\ UNCHANGED <<cap_opened, key>>
    /\ EvalUnchanged

\* ret, input_frame = cap.read(); if not ret: break
Read ==
    /\ pc = "read"
    /\ ret' \in (IF FramesRead < MaxFrames THEN BOOLEAN ELSE {FALSE})
    /\ trace' = Append(trace, IF ret' THEN "read_ok" ELSE "read_fail")
    /\ pc' = IF ret' THEN "predict" ELSE "release"
    /\ UNCHANGED <<cap_opened, key>>
    /\ EvalUnchanged

\* output_frame = predict(input_frame): it returns, or it raises and the
\* error leaves open_webcam
Predict ==
    /\ pc = "predict"
    /\ trace' = Append(trace, "predict")
    /\ pc' \in {"show", "raised"}
    /\ UNCHANGED <<cap_opened, ret, key>>
    /\ EvalUnchanged

\* cv2.putText(...); cv2.putText(...); cv2.imshow("img", output_frame)
Show ==
    /\ pc = "show"
    /\ trace' = Append(trace, "imshow")
    /\ pc' = "waitKey"
    /\ UNCHANGED <<cap_opened, ret, key>>
    /\ EvalUnchanged

\* if cv2.waitKey(1) & 0xFF == ord('q'): break
WaitKey ==
    /\ pc = "waitKey"
    /\ key' \in Keys
    /\ trace' = Append(trace, IF key' % 256 = ord_q THEN "key_q" ELSE "key_other")
    /\ pc' = IF key' % 256 = ord_q THEN "release" ELSE "while"
    /\ UNCHANGED <<cap_opened, ret>>
    /\ EvalUnchanged

\* cap.release()
Release ==
    /\ pc = "release"
    /\ cap_opened' = FALSE
    /\ trace' = Append(trace, "release")
    /\ pc' = "destroy"
    /\ UNCHANGED <<ret, key>>
    /\ EvalUnchanged

\* cv2.destroyAllWindows()
Destroy ==
    /\ pc = "destroy"
    /\ trace' = Append(trace, "destroyAllWindows")
    /\ pc' = "returned"
    /\ UNCHANGED <<cap_opened, ret, key>>
    /\ EvalUnchanged

NextWebcam == LoopTest \/ Read \/ Predict \/ Show \/ WaitKey \/ Release \/ Destroy

SpecWebcam == InitWebcam /\ [][NextWebcam]_vars

Count(e) == Len(SelectSeq(trace, LAMBDA x : x = e))

\* C10: frames are processed one at a time, read -> predict -> show -> key
\* check; predict is only called on a frame that was read with ret = True;
\* after a failed read or a 'q' nothing more is read, shown or predicted;
\* when the loop is left, release and then destroyAllWindows are each called
\* exactly once; when predict raises, neither is called.
C10_CaptureLoop ==
    /\ \A i \in 1..Len(trace) :
          /\ trace[i] \in {"read_ok", "read_fail"} => (i = 1 \/ trace[i - 1] = "key_other")
          /\ trace[i] = "predict" => (i > 1 /\ trace[i - 1] = "read_ok")
          /\ trace[i] = "imshow" => (i > 1 /\ trace[i - 1] = "predict")
          /\ trace[i] \in {"key_q", "key_other"} => (i > 1 /\ trace[i - 1] = "imshow")
          /\ trace[i] \in {"read_fail", "key_q"} => (i = Len(trace) \/ trace[i + 1] = "release")
          /\ trace[i] = "release" =>
                (i = 1 \/ trace[i - 1] \in {"read_fail", "key_q", "key_other"})
          /\ trace[i] = "destroyAllWindows" => (i > 1 /\ trace[i - 1] = "release")
    /\ Count("release") <= 1
    /\ Count("destroyAllWindows") <= 1
    /\ pc = "predict" => ret
    /\ pc = "returned" =>
          /\ Count("release") = 1
          /\ Count("destroyAllWindows") = 1
          /\ trace[Len(trace)] = "destroyAllWindows"
    /\ pc = "raised" =>
          /\ trace[Len(trace)] = "predict"
          /\ Count("release") = 0
          /\ Count("destroyAllWindows") = 0
          /\ ~ENABLED NextWebcam

\* two frames were read, predicted and shown, 'q' was pressed after the
\* second, and open_webcam has returned
C10_Witness ==
    /\ pc = "returned"
    /\ trace = <<"read_ok", "predict", "imshow", "key_other",
                 "read_ok", "predict", "imshow", "key_q",
                 "release", "destroyAllWindows">>

====
